---- MODULE Spec2Model ----
\* The parallel pool of tsrsc (src/src/main.ts, runInPool and the build cache
\* and persistent-worker definitions at the top of the file), as a state
\* machine.  One process runs one batch; a later process run (Restart) loads
\* the cache file the earlier one wrote.
EXTENDS Integers, Sequences, FiniteSets, TLC

\* ---------------------------------------------------------------- bounds
\* The longest batch (of new jobs), and the longest batch whose jobs are drawn
\* from every class of the cache filter.
NJobs == 3
NVaried == 2
MaxParallel == 2
MaxRuns == 2
\* The last reading of the clock (Date.now) in a run.
MaxNow == 2
\* The largest number given to -j, set in TSRSC_JOBS or reported by os.cpus().
MaxArg == 4
\* The length of the one long batch (all jobs new and succeeding).
NBig == 5

Jobs == 1..NBig
\* Every binding of a job to a worker creates at most one replacement worker.
MaxW == MaxParallel + NBig
WorkerIds == 1..MaxW
NoJob == 0

\* ------------------------------------------------------------ signatures
\* fileSig returns undefined for an unreadable input, and BUILD_CACHE has no
\* entry for an unknown output: both are the value NoSig.
NoSig == [size |-> 0 - 1, mtime |-> 0 - 1]
Sig(sz, mt) == [size |-> sz, mtime |-> mt]

VARIABLES
    \* the environment
    fs,             \* input path -> what fs.statSync reports now
    disk,           \* content of build-cache.json, keyed by output path
    tasks,          \* the batch: for each task, whether it declares an output
    jobsArg,        \* the jobs argument of runInPool
    workerScript,   \* fs.existsSync(absWorker)
    wstate,         \* each Worker thread: none, idle, busy, zombie, dead
    \* module-level state of main.ts
    BUILD_CACHE, BUILD_CACHE_DIRTY, PERSIST_WORKERS, nextW,
    \* the closure state of one runInPool call
    pc, total, done, queue, failed, fallback, inFlightMeta, inFlightCount,
    pendingInputs, timers, msgL, errL, aborted, stallTimerOn, sigintL,
    now, lastProgress, exitCode,
    \* the closure state of a second runInPool call made while the first runs
    other,
    \* what parseJobs reads: the -j/--jobs flag, TSRSC_JOBS, os.cpus().length
    argv,
    \* history, read only by the properties
    h

envVars == <<fs, disk, tasks, jobsArg, workerScript, wstate>>
modVars == <<BUILD_CACHE, BUILD_CACHE_DIRTY, PERSIST_WORKERS, nextW>>
runVars == <<pc, total, done, queue, failed, fallback, inFlightMeta, inFlightCount,
             pendingInputs, timers, msgL, errL, aborted, stallTimerOn, sigintL,
             now, lastProgress, exitCode>>
vars == <<envVars, modVars, runVars, other, argv, h>>

\* The whole state as one record, so that a handler is a function from the
\* state before it to the state after it.
St ==
    [fs |-> fs, disk |-> disk, tasks |-> tasks, jobsArg |-> jobsArg,
     workerScript |-> workerScript, wstate |-> wstate,
     BUILD_CACHE |-> BUILD_CACHE, BUILD_CACHE_DIRTY |-> BUILD_CACHE_DIRTY,
     PERSIST_WORKERS |-> PERSIST_WORKERS, nextW |-> nextW,
     pc |-> pc, total |-> total, done |-> done, queue |-> queue, failed |-> failed,
     fallback |-> fallback, inFlightMeta |-> inFlightMeta,
     inFlightCount |-> inFlightCount, pendingInputs |-> pendingInputs,
     timers |-> timers, msgL |-> msgL, errL |-> errL,
     aborted |-> aborted, stallTimerOn |-> stallTimerOn, sigintL |-> sigintL,
     now |-> now, lastProgress |-> lastProgress, exitCode |-> exitCode,
     other |-> other, argv |-> argv, h |-> h]

Commit(s) ==
    /\ fs' = s.fs /\ disk' = s.disk /\ tasks' = s.tasks /\ jobsArg' = s.jobsArg
    /\ workerScript' = s.workerScript /\ wstate' = s.wstate
    /\ BUILD_CACHE' = s.BUILD_CACHE /\ BUILD_CACHE_DIRTY' = s.BUILD_CACHE_DIRTY
    /\ PERSIST_WORKERS' = s.PERSIST_WORKERS /\ nextW' = s.nextW
    /\ pc' = s.pc /\ total' = s.total /\ done' = s.done /\ queue' = s.queue
    /\ failed' = s.failed /\ fallback' = s.fallback
    /\ inFlightMeta' = s.inFlightMeta /\ inFlightCount' = s.inFlightCount
    /\ pendingInputs' = s.pendingInputs /\ timers' = s.timers
    /\ msgL' = s.msgL /\ errL' = s.errL
    /\ aborted' = s.aborted /\ stallTimerOn' = s.stallTimerOn /\ sigintL' = s.sigintL
    /\ now' = s.now /\ lastProgress' = s.lastProgress /\ exitCode' = s.exitCode
    /\ other' = s.other /\ argv' = s.argv
    /\ h' = s.h

\* ------------------------------------------------------------- helpers
Min(a, b) == IF a <= b THEN a ELSE b
Max(a, b) == IF a >= b THEN a ELSE b
SeqToSet(q) == {q[i] : i \in 1..Len(q)}
\* Array.prototype.indexOf, 1-based; 0 stands for -1.
IndexOf(q, x) ==
    IF \E i \in 1..Len(q) : q[i] = x
    THEN CHOOSE i \in 1..Len(q) : q[i] = x /\ \A k \in 1..(i - 1) : q[k] # x
    ELSE 0
\* Array.prototype.pop: the last element and the rest.
Last(q) == q[Len(q)]
Front(q) == SubSeq(q, 1, Len(q) - 1)

\* fs.statSync of an input, or undefined
fileSig(s, p) == s.fs[p]

\* Faulty variant: the entry is stored but the dirty flag is not set.
RecordSig_NoDirty(s, task) ==
    IF s.tasks[task]
    THEN LET sig == fileSig(s, task) IN
         IF sig # NoSig
         THEN [s EXCEPT !.BUILD_CACHE[task] = sig]
         ELSE s
    ELSE s

\* The build-cache bookkeeping of a success (repeated verbatim in the
\* synchronous path, runTaskSync and onMessage).
RecordSig(s, task) ==
    IF s.tasks[task]
    THEN LET sig == fileSig(s, task) IN
         IF sig # NoSig
         THEN [s EXCEPT !.BUILD_CACHE[task] = sig, !.BUILD_CACHE_DIRTY = TRUE]
         ELSE s
    ELSE s

\* Faulty variant: the flush clears the dirty flag without writing the file.
persistBuildCache_NoWrite(s, wok) ==
    [s EXCEPT !.h.flushCalls = @ + 1, !.BUILD_CACHE_DIRTY = FALSE]

\* Faulty variant: a failed write clears the dirty flag all the same.
persistBuildCache_ClearOnFail(s, wok) ==
    LET s1 == [s EXCEPT !.h.flushCalls = @ + 1] IN
    IF s1.BUILD_CACHE_DIRTY
    THEN IF wok
         THEN [s1 EXCEPT !.disk = s1.BUILD_CACHE, !.BUILD_CACHE_DIRTY = FALSE,
                         !.h.flushWrites = @ + 1]
         ELSE [s1 EXCEPT !.BUILD_CACHE_DIRTY = FALSE, !.h.flushFails = @ + 1]
    ELSE s1

\* wok: whether fs.writeFileSync succeeds.
persistBuildCache(s, wok) ==
    LET s1 == [s EXCEPT !.h.flushCalls = @ + 1] IN
    IF s1.BUILD_CACHE_DIRTY
    THEN IF wok
         THEN [s1 EXCEPT !.disk = s1.BUILD_CACHE, !.BUILD_CACHE_DIRTY = FALSE,
                         !.h.flushWrites = @ + 1]
         ELSE [s1 EXCEPT !.h.flushFails = @ + 1]
    ELSE s1

\* w.terminate(): a thread stopped in the middle of a task may still have
\* posted an event that is delivered afterwards (zombie).
Terminate(s, w) ==
    [s EXCEPT !.wstate[w] = IF @ \in {"busy", "busyOther"} THEN "zombie"
                            ELSE IF @ = "idle" THEN "dead" ELSE @]

RECURSIVE TerminateAll(_, _)
TerminateAll(s, ws) ==
    IF ws = <<>> THEN s ELSE TerminateAll(Terminate(s, Head(ws)), Tail(ws))

\* new Worker(absWorker)
NewWorker(s) == [s EXCEPT !.wstate[s.nextW] = "idle", !.nextW = @ + 1]

RECURSIVE CreateWorkers(_, _)
CreateWorkers(s, n) ==
    IF n = 0 THEN s
    ELSE LET w == s.nextW IN
         CreateWorkers([NewWorker(s) EXCEPT
                            !.PERSIST_WORKERS.workers = Append(@, w),
                            !.PERSIST_WORKERS.idle = Append(@, w)], n - 1)

\* Faulty variant: the pool is rebuilt even when it already has n workers.
ensureWorkers_AlwaysRebuild(s, n) ==
    LET s1 == TerminateAll(s, s.PERSIST_WORKERS.workers) IN
    CreateWorkers([s1 EXCEPT !.PERSIST_WORKERS =
                       [jobs |-> n, workers |-> <<>>, idle |-> <<>>]], n)

ensureWorkers(s, n) ==
    IF s.PERSIST_WORKERS.jobs = n /\ Len(s.PERSIST_WORKERS.workers) = n
    THEN s
    ELSE LET s1 == TerminateAll(s, s.PERSIST_WORKERS.workers) IN
         CreateWorkers([s1 EXCEPT !.PERSIST_WORKERS =
                            [jobs |-> n, workers |-> <<>>, idle |-> <<>>]], n)

\* Faulty variant: the new worker is pushed to idle but the dead one keeps its slot.
ReplaceWorker_KeepSlot(s, w) ==
    LET s1 == Terminate(s, w)
        idx == IndexOf(s1.PERSIST_WORKERS.workers, w) IN
    IF idx > 0
    THEN LET nw == s1.nextW IN
         [NewWorker(s1) EXCEPT !.PERSIST_WORKERS.idle = Append(@, nw)]
    ELSE s1

\* The slot replacement of the timeout and error handlers:
\* terminate w, and if it is still in the pool put a new idle worker in its slot.
ReplaceWorker(s, w) ==
    LET s1 == Terminate(s, w)
        idx == IndexOf(s1.PERSIST_WORKERS.workers, w) IN
    IF idx > 0
    THEN LET nw == s1.nextW IN
         [NewWorker(s1) EXCEPT !.PERSIST_WORKERS.workers[idx] = nw,
                               !.PERSIST_WORKERS.idle = Append(@, nw)]
    ELSE s1

\* ------------------------------------------------- the closures of runInPool
\* done++ inside the handler of `task` (history: one more outcome for it)
CountDone(s, task) == [s EXCEPT !.done = @ + 1, !.h.outcomes[task] = @ + 1]

\* pendingInputs.delete(task.input); lastProgress = Date.now()
Progress(s, task) ==
    [s EXCEPT !.pendingInputs = @ \ {task}, !.lastProgress = s.now,
              !.h.lastEvent = s.now]

\* Faulty variant: completion leaves the watchdog running.
finishCheck_KeepWatchdog(s, wok) ==
    IF s.done >= s.total /\ s.inFlightCount = 0
    THEN LET s1 == [s EXCEPT !.h.declares = Append(@,
                                 [done |-> s.done,
                                  pendingInputs |-> s.pendingInputs,
                                  queue |-> s.queue,
                                  records |-> {w \in WorkerIds :
                                                   s.inFlightMeta[w] # NoJob}])]
             s2 == persistBuildCache(s1, wok)
             s3 == TerminateAll(s2, s2.PERSIST_WORKERS.workers) IN
         [s3 EXCEPT !.PERSIST_WORKERS.workers = <<>>,
                    !.PERSIST_WORKERS.idle = <<>>,
                    !.pc = "complete"]
    ELSE s

finishCheck(s, wok) ==
    IF s.done >= s.total /\ s.inFlightCount = 0
    THEN LET s1 == [s EXCEPT !.stallTimerOn = FALSE,
                             !.h.declares = Append(@,
                                 [done |-> s.done,
                                  pendingInputs |-> s.pendingInputs,
                                  queue |-> s.queue,
                                  records |-> {w \in WorkerIds :
                                                   s.inFlightMeta[w] # NoJob}])]
             s2 == persistBuildCache(s1, wok)
             s3 == TerminateAll(s2, s2.PERSIST_WORKERS.workers) IN
         [s3 EXCEPT !.PERSIST_WORKERS.workers = <<>>,
                    !.PERSIST_WORKERS.idle = <<>>,
                    !.pc = "complete"]
    ELSE s

\* ok: whether transpileFile returns (TRUE) or throws (FALSE)
runTaskSync(s, task, ok) ==
    LET s0 == [s EXCEPT !.h.syncRuns[task] = @ + 1,
                        !.h.consumed[task] = fileSig(s, task)] IN
    IF ok
    THEN LET s1 == [CountDone(s0, task) EXCEPT !.fallback = Append(@, task),
                                                !.h.succeeded = @ \cup {task}] IN
         Progress(RecordSig(s1, task), task)
    ELSE LET s1 == [CountDone(s0, task) EXCEPT !.failed = Append(@, task)] IN
         Progress(s1, task)

\* Faulty variant: the task is taken from the back of the queue.
Bind_FromBack(s) ==
    LET w == Last(s.PERSIST_WORKERS.idle)
        task == Last(s.queue) IN
    [s EXCEPT !.PERSIST_WORKERS.idle = Front(@),
              !.queue = Front(@),
              !.timers = @ \cup {<<w, task>>},
              !.inFlightMeta[w] = task,
              !.inFlightCount = @ + 1,
              !.msgL[w] = Append(@, task),
              !.errL[w] = Append(@, task),
              !.wstate[w] = IF @ = "idle" THEN "busy" ELSE @,
              !.h.dispatched = Append(@, task),
              !.h.consumed[task] = fileSig(s, task)]

\* One turn of the while loop of dispatch: pop an idle worker, shift a task,
\* arm the timer, record the pair, register the two once-listeners, post.
Bind(s) ==
    LET w == Last(s.PERSIST_WORKERS.idle)
        task == Head(s.queue) IN
    [s EXCEPT !.PERSIST_WORKERS.idle = Front(@),
              !.queue = Tail(@),
              !.timers = @ \cup {<<w, task>>},
              !.inFlightMeta[w] = task,
              !.inFlightCount = @ + 1,
              !.msgL[w] = Append(@, task),
              !.errL[w] = Append(@, task),
              !.wstate[w] = IF @ = "idle" THEN "busy" ELSE @,
              !.h.dispatched = Append(@, task),
              !.h.consumed[task] = fileSig(s, task)]

RECURSIVE dispatch(_)
dispatch(s) ==
    IF Len(s.PERSIST_WORKERS.idle) > 0 /\ Len(s.queue) > 0
    THEN dispatch(Bind(s))
    ELSE s

\* if (done >= total) finishCheck(); else dispatch();
Continue(s, wok) ==
    IF s.done >= s.total THEN finishCheck(s, wok) ELSE dispatch(s)

\* const meta = inFlightMeta.get(w); if (meta) { clearTimeout(meta.timer);
\* inFlightMeta.delete(w); inFlightCount--; }
ClaimRecord(s, w) ==
    IF s.inFlightMeta[w] # NoJob
    THEN [s EXCEPT !.timers = @ \ {<<w, s.inFlightMeta[w]>>},
                   !.inFlightMeta[w] = NoJob,
                   !.inFlightCount = @ - 1]
    ELSE s

\* The setTimeout callback of the pair (w, task).
onTimeout(s, w, task, ok, wok) ==
    LET s1 == ReplaceWorker([s EXCEPT !.timers = @ \ {<<w, task>>}], w)
        s2 == IF s1.inFlightMeta[w] # NoJob
              THEN [s1 EXCEPT !.inFlightMeta[w] = NoJob, !.inFlightCount = @ - 1]
              ELSE s1
        s3 == runTaskSync([s2 EXCEPT !.h.timedOut = @ \cup {task}], task, ok) IN
    Continue(s3, wok)

\* Faulty variant: the message handler records the signature whatever msg.ok is.
onMessage_RecordAlways(s, w, task, ok, wok) ==
    IF s.inFlightMeta[w] = NoJob
    THEN s
    ELSE LET s1 == CountDone(ClaimRecord(s, w), task)
             s2 == IF ~ok
                   THEN RecordSig([s1 EXCEPT !.failed = Append(@, task),
                                             !.h.msgFailed = @ \cup {task}], task)
                   ELSE RecordSig([s1 EXCEPT !.h.succeeded = @ \cup {task}], task)
             s3 == [Progress(s2, task) EXCEPT !.PERSIST_WORKERS.idle = Append(@, w)] IN
         Continue(s3, wok)

\* Faulty variant: a worker that reported a failure is replaced.
onMessage_ReplaceOnFail(s, w, task, ok, wok) ==
    IF s.inFlightMeta[w] = NoJob
    THEN s
    ELSE LET s1 == CountDone(ClaimRecord(s, w), task)
             s2 == IF ~ok
                   THEN ReplaceWorker([s1 EXCEPT !.failed = Append(@, task),
                                                 !.h.msgFailed = @ \cup {task}], w)
                   ELSE RecordSig([s1 EXCEPT !.h.succeeded = @ \cup {task}], task)
             s3 == IF ~ok THEN Progress(s2, task)
                   ELSE [Progress(s2, task) EXCEPT !.PERSIST_WORKERS.idle = Append(@, w)] IN
         Continue(s3, wok)

\* ok: msg.ok is not false.
onMessage(s, w, task, ok, wok) ==
    IF s.inFlightMeta[w] = NoJob
    THEN s
    ELSE LET s1 == CountDone(ClaimRecord(s, w), task)
             s2 == IF ~ok
                   THEN [s1 EXCEPT !.failed = Append(@, task),
                                   !.h.msgFailed = @ \cup {task}]
                   ELSE RecordSig([s1 EXCEPT !.h.succeeded = @ \cup {task}], task)
             s3 == [Progress(s2, task) EXCEPT !.PERSIST_WORKERS.idle = Append(@, w)] IN
         Continue(s3, wok)

onError(s, w, task, wok) ==
    LET s1 == CountDone(ClaimRecord(s, w), task)
        s2 == Progress([s1 EXCEPT !.failed = Append(@, task)], task)
        s3 == ReplaceWorker(s2, w) IN
    Continue(s3, wok)

\* --------------------------------------------------------------- runInPool
\* Faulty variant: the filter compares the modification time only.
IsFresh_MtimeOnly(s, t) ==
    IF ~s.tasks[t] THEN TRUE
    ELSE LET sig == fileSig(s, t) IN
         IF sig = NoSig THEN TRUE
         ELSE LET cached == s.BUILD_CACHE[t] IN
              cached = NoSig \/ cached.mtime # sig.mtime

\* The cache filter: TRUE when the task goes to `fresh`.
IsFresh(s, t) ==
    IF ~s.tasks[t] THEN TRUE
    ELSE LET sig == fileSig(s, t) IN
         IF sig = NoSig THEN TRUE
         ELSE LET cached == s.BUILD_CACHE[t] IN
              cached = NoSig \/ cached.size # sig.size \/ cached.mtime # sig.mtime

\* A task is named by its index in the array main passes.
FreshOf(s) == SelectSeq([i \in 1..Len(s.tasks) |-> i], LAMBDA t : IsFresh(s, t))

\* Math.max(1, jobs || 1)
MaxWorkersOf(jobs) == Max(1, IF jobs = 0 THEN 1 ELSE jobs)

\* The loop taken when worker.js does not exist: no try/catch, so a throwing
\* transpileFile leaves the loop and runInPool.  failAt: the index in `fresh`
\* of the first task whose transpileFile throws (0: none does).
\* No SIGINT listener is registered on this path (process.once comes after its
\* return), so an interrupt has the default effect: the process ends with
\* status 128 + 2 at once.  killAt: the index of the task before which the
\* interrupt arrives (0: no interrupt).
RECURSIVE SyncLoop(_, _, _, _, _, _)
SyncLoop(s, rest, i, failAt, killAt, wok) ==
    IF rest = <<>>
    THEN [persistBuildCache(s, wok) EXCEPT !.pc = "returned"]
    ELSE IF i = killAt
    THEN [s EXCEPT !.pc = "exited", !.exitCode = 130]
    ELSE LET t == Head(rest)
             s0 == [s EXCEPT !.h.syncRuns[t] = @ + 1,
                             !.h.syncOrder = Append(@, t),
                             !.h.consumed[t] = fileSig(s, t)] IN
         IF i = failAt
         THEN [s0 EXCEPT !.pc = "threw"]
         ELSE SyncLoop(RecordSig(CountDone([s0 EXCEPT !.h.succeeded = @ \cup {t}], t), t),
                       Tail(rest), i + 1, failAt, killAt, wok)

runInPool(s, failAt, killAt, wok) ==
    LET fresh == FreshOf(s)
        maxWorkers == MaxWorkersOf(s.jobsArg)
        s0 == [s EXCEPT !.total = Len(fresh), !.h.admitted = fresh,
                         !.h.cacheAtSubmit = s.BUILD_CACHE] IN
    IF Len(fresh) = 0
    THEN [s0 EXCEPT !.pc = "returned"]
    ELSE IF ~s.workerScript
    THEN SyncLoop(s0, fresh, 1, failAt, killAt, wok)
    ELSE LET s1 == ensureWorkers(s0, Min(maxWorkers, Len(fresh))) IN
         dispatch([s1 EXCEPT !.queue = fresh,
                             !.pendingInputs = SeqToSet(fresh),
                             !.lastProgress = s.now,
                             !.h.lastEvent = s.now,
                             !.stallTimerOn = TRUE,
                             !.sigintL = TRUE,
                             !.pc = "running"])

\* The stall report threshold, in clock steps of the model.
STALL_MS == 1

\* The setInterval callback.
onStallTick(s) ==
    IF s.done >= s.total THEN s
    ELSE LET idleFor == s.now - s.lastProgress IN
         IF idleFor >= STALL_MS
         THEN [s EXCEPT !.lastProgress = s.now, !.h.stallReports = @ + 1]
         ELSE s

\* Faulty variant: the handler does not test the aborted flag.
onSigInt_NoGuard(s, wok) ==
    LET s1 == [s EXCEPT !.aborted = TRUE, !.stallTimerOn = FALSE] IN
    [persistBuildCache(s1, wok) EXCEPT !.pc = "exited", !.exitCode = 130]

onSigInt(s, wok) ==
    IF s.aborted THEN s
    ELSE LET s1 == [s EXCEPT !.aborted = TRUE, !.stallTimerOn = FALSE] IN
         [persistBuildCache(s1, wok) EXCEPT !.pc = "exited", !.exitCode = 130]

\* ------------------------------------------------------------------ Init
NoHistory ==
    [flushCalls |-> 0, flushWrites |-> 0, flushFails |-> 0, declares |-> <<>>,
     dispatched |-> <<>>, admitted |-> <<>>, cacheAtSubmit |-> <<>>,
     outcomes |-> [j \in Jobs |-> 0], syncRuns |-> [j \in Jobs |-> 0],
     timedOut |-> {}, succeeded |-> {}, errored |-> {}, msgFailed |-> {},
     lateErrors |-> 0,
     stallReports |-> 0, lastEvent |-> 0, syncOrder |-> <<>>,
     consumed |-> [j \in Jobs |-> NoSig]]

\* The command line has been read (main.ts:80); jobsArg holds the result.
NoArgv == [kind |-> "none", n |-> 0, env |-> 0, cpus |-> 0]

\* No second call has been made.
NoOther == [called |-> FALSE, total |-> 0, queued |-> 0, inFlight |-> {}]

FreshProcess(s) ==
    [s EXCEPT !.wstate = [w \in WorkerIds |-> "none"],
              !.BUILD_CACHE = s.disk, !.BUILD_CACHE_DIRTY = FALSE,
              !.PERSIST_WORKERS = [jobs |-> 0, workers |-> <<>>, idle |-> <<>>],
              !.nextW = 1,
              !.pc = "start", !.total = 0, !.done = 0, !.queue = <<>>,
              !.failed = <<>>, !.fallback = <<>>,
              !.inFlightMeta = [w \in WorkerIds |-> NoJob], !.inFlightCount = 0,
              !.pendingInputs = {}, !.timers = {},
              !.msgL = [w \in WorkerIds |-> <<>>], !.errL = [w \in WorkerIds |-> <<>>],
              !.aborted = FALSE, !.stallTimerOn = FALSE,
              !.sigintL = FALSE, !.now = 0, !.lastProgress = 0, !.exitCode = 0,
              !.other = NoOther]

\* What a task can look like to the cache filter: <<declares an output, the
\* signature of its input, the stored signature of its output>>.
S11 == Sig(1, 1)
NewJob == <<TRUE, S11, NoSig>>
Classes ==
    {<<FALSE, S11, NoSig>>,      \* no output
     <<TRUE, NoSig, NoSig>>,     \* unreadable input
     NewJob,                     \* never built
     <<TRUE, S11, Sig(1, 2)>>,   \* input touched since
     <<TRUE, S11, Sig(2, 1)>>,   \* input resized since
     <<TRUE, S11, S11>>}         \* up to date

\* sizes: the lengths of the batches main may pass.
InitWith(sizes) ==
    /\ \E n \in sizes : \E cls \in [1..n -> Classes] :
         /\ n > NVaried => \A i \in 1..n : cls[i] = NewJob
         /\ tasks = [i \in 1..n |-> cls[i][1]]
         /\ fs = [j \in Jobs |-> IF j <= n THEN cls[j][2] ELSE NoSig]
         /\ disk = [j \in Jobs |-> IF j <= n THEN cls[j][3] ELSE NoSig]
    /\ jobsArg \in 1..MaxParallel
    /\ workerScript \in BOOLEAN
    /\ wstate = [w \in WorkerIds |-> "none"]
    /\ BUILD_CACHE = disk /\ BUILD_CACHE_DIRTY = FALSE
    /\ PERSIST_WORKERS = [jobs |-> 0, workers |-> <<>>, idle |-> <<>>]
    /\ nextW = 1
    /\ pc = "start" /\ total = 0 /\ done = 0 /\ queue = <<>>
    /\ failed = <<>> /\ fallback = <<>>
    /\ inFlightMeta = [w \in WorkerIds |-> NoJob] /\ inFlightCount = 0
    /\ pendingInputs = {} /\ timers = {}
    /\ msgL = [w \in WorkerIds |-> <<>>] /\ errL = [w \in WorkerIds |-> <<>>]
    /\ aborted = FALSE /\ stallTimerOn = FALSE /\ sigintL = FALSE
    /\ now = 0 /\ lastProgress = 0 /\ exitCode = 0
    /\ other = NoOther
    /\ argv = NoArgv
    /\ h = NoHistory @@
           [runNo |-> 1, prev |-> [pc |-> "none", dirty |-> FALSE, succeeded |-> {},
                                   failed |-> {}]]

Init == InitWith(1..NJobs)

\* --------------------------------------------------------------- actions
Alive == pc \in {"running", "complete"}

\* main calls runInPool(tasks, jobs).
Submit ==
    /\ pc = "start"
    /\ \E failAt \in 0..NJobs, killAt \in 0..NJobs, wok \in BOOLEAN :
         /\ failAt <= (IF workerScript THEN 0 ELSE Len(FreshOf(St)))
         /\ killAt <= (IF workerScript THEN 0 ELSE Len(FreshOf(St)))
         /\ killAt = 0 \/ failAt = 0
         /\ Commit(runInPool(St, failAt, killAt, wok))

\* EventEmitter.emit calls the listeners in the order they were registered;
\* ls: the listeners (each the closure of one task) still to be called.
RECURSIVE EmitAll(_, _, _, _, _, _)
EmitAll(s, kind, w, ls, ok, wok) ==
    IF ls = <<>> THEN s
    ELSE EmitAll(IF kind = "message" THEN onMessage(s, w, Head(ls), ok, wok)
                 ELSE onError(s, w, Head(ls), wok),
                 kind, w, Tail(ls), ok, wok)

\* Every listener was registered with once: it is removed as it is called.
EmitMessage(s, w, ok, wok) ==
    EmitAll([s EXCEPT !.msgL[w] = <<>>], "message", w, s.msgL[w], ok, wok)

EmitError(s, w, wok) ==
    EmitAll([s EXCEPT !.errL[w] = <<>>, !.h.errored = @ \cup ({s.inFlightMeta[w]} \ {NoJob})],
            "error", w, s.errL[w], TRUE, wok)

\* The worker answers the task it was posted: {ok: true} or {ok: false}.
WorkerMessage(w) ==
    /\ Alive /\ wstate[w] = "busy"
    /\ \E ok \in BOOLEAN, wok \in BOOLEAN :
         Commit(EmitMessage([St EXCEPT !.wstate[w] = "idle"], w, ok, wok))

\* The worker thread dies with an uncaught error while it has a task.
WorkerError(w) ==
    /\ Alive /\ wstate[w] = "busy"
    /\ \E wok \in BOOLEAN :
         Commit(EmitError([St EXCEPT !.wstate[w] = "dead"], w, wok))

\* An event a worker posted before terminate() stopped it is delivered after.
LateMessage(w) ==
    /\ Alive /\ wstate[w] = "zombie"
    /\ \E ok \in BOOLEAN, wok \in BOOLEAN :
         Commit(EmitMessage([St EXCEPT !.wstate[w] = "dead"], w, ok, wok))

LateError(w) ==
    /\ Alive /\ wstate[w] = "zombie"
    /\ \E wok \in BOOLEAN :
         Commit(EmitError([St EXCEPT !.wstate[w] = "dead", !.h.lateErrors = @ + 1], w, wok))

\* The deadline timer of a bound pair fires.
Timeout(w) ==
    /\ Alive
    /\ \E task \in Jobs, ok \in BOOLEAN, wok \in BOOLEAN :
         /\ <<w, task>> \in timers
         /\ Commit(onTimeout(St, w, task, ok, wok))

StallTick ==
    /\ Alive /\ stallTimerOn
    /\ Commit(onStallTick(St))

SigInt ==
    /\ Alive /\ sigintL
    /\ \E wok \in BOOLEAN :
         Commit(onSigInt([St EXCEPT !.sigintL = FALSE], wok))

\* The batch is over and the process ends; the tool is started again on the
\* same batch (a run after an aborted one starts like one of the initial states).
Restart ==
    /\ pc \in {"returned", "complete"}
    /\ h.runNo < MaxRuns
    /\ Commit([FreshProcess(St) EXCEPT
                  !.h = NoHistory @@
                        [runNo |-> h.runNo + 1,
                         prev |-> [pc |-> pc, dirty |-> BUILD_CACHE_DIRTY,
                                   succeeded |-> h.succeeded,
                                   failed |-> SeqToSet(failed)]]])

\* The events of a run in which no terminated worker is heard of again.
NextCore ==
    \/ Submit
    \/ \E w \in WorkerIds : WorkerMessage(w)
    \/ \E w \in WorkerIds : WorkerError(w)
    \/ \E w \in WorkerIds : Timeout(w)
    \/ StallTick
    \/ SigInt
    \/ Restart

Next ==
    \/ NextCore
    \/ \E w \in WorkerIds : LateMessage(w)
    \/ \E w \in WorkerIds : LateError(w)

Spec == Init /\ [][Next]_vars

SpecCore == Init /\ [][NextCore]_vars

\* main's second runInPool call (--pkg --deps: the package's sources, then a
\* dependency's), made while the batch of the first call is running.  n: the
\* length of its `fresh`.  Its own closure keeps its queue and its records;
\* the workers it binds are busy with its jobs (busyOther).
RECURSIVE dispatchOther(_)
dispatchOther(s) ==
    IF Len(s.PERSIST_WORKERS.idle) > 0 /\ s.other.queued > 0
    THEN LET w == Last(s.PERSIST_WORKERS.idle) IN
         dispatchOther([s EXCEPT !.PERSIST_WORKERS.idle = Front(@),
                                 !.other.queued = @ - 1,
                                 !.other.inFlight = @ \cup {w},
                                 !.wstate[w] = "busyOther"])
    ELSE s

runInPoolOther(s, n) ==
    LET s1 == ensureWorkers(s, Min(MaxWorkersOf(s.jobsArg), n)) IN
    dispatchOther([s1 EXCEPT !.other = [called |-> TRUE, total |-> n,
                                        queued |-> n, inFlight |-> {}]])

SubmitOther ==
    /\ pc = "running"
    /\ ~other.called
    /\ \E n \in 1..NJobs : Commit(runInPoolOther(St, n))

\* parseJobs.  a.kind: "none" when neither flag is given (or it has no value),
\* "nan" when parseInt of its value is NaN, "int" when it is the integer a.n.
\* a.env: Number(process.env.TSRSC_JOBS), 0 when unset (NaN and 0 are both
\* falsy).  a.cpus: os.cpus()?.length, 0 when it is undefined or 0.
HalfCpus(a) == Max(1, (IF a.cpus # 0 THEN a.cpus ELSE 1) \div 2)

parseJobs(a) ==
    IF a.kind = "int"
    THEN IF a.n <= 0 THEN HalfCpus(a) ELSE a.n
    ELSE LET cpus == IF a.env # 0 THEN a.env
                     ELSE IF a.cpus # 0 THEN a.cpus ELSE 1 IN
         Max(1, cpus \div 2)

\* The start of main, before the command line is read.
InitJobs ==
    /\ Init
    /\ tasks = <<TRUE>> /\ workerScript /\ jobsArg = 1
    /\ \A j \in Jobs : disk[j] = NoSig

Boot ==
    /\ pc = "start" /\ argv = NoArgv /\ h.runNo = 1
    /\ \E kind \in {"none", "nan", "int"}, n \in (0 - 1)..MaxArg,
          env \in 0..MaxArg, cpus \in 0..MaxArg :
         /\ kind # "int" => n = 0
         /\ kind # "none" \/ env # 0 \/ cpus # 0
         /\ Commit([St EXCEPT !.argv = [kind |-> kind, n |-> n,
                                         env |-> env, cpus |-> cpus],
                               !.pc = "boot"])

\* const jobs = parseJobs(args)
ParseJobs ==
    /\ pc = "boot"
    /\ Commit([St EXCEPT !.jobsArg = parseJobs(argv), !.pc = "parsed"])

NextJobs ==
    \/ Boot
    \/ ParseJobs

SpecJobs == InitJobs /\ [][NextJobs]_vars

\* One long batch of new jobs on MaxParallel workers in which every job that
\* runs succeeds and every write of the store file succeeds: the worker's
\* {ok: true}, the deadline timer, and the 'error' of a terminated worker.
InitBig ==
    /\ InitWith({NBig})
    /\ workerScript
    /\ jobsArg = MaxParallel

BigMessage(w) ==
    /\ Alive /\ wstate[w] = "busy"
    /\ Commit(EmitMessage([St EXCEPT !.wstate[w] = "idle"], w, TRUE, TRUE))

BigTimeout(w) ==
    /\ Alive
    /\ \E task \in Jobs :
         /\ <<w, task>> \in timers
         /\ Commit(onTimeout(St, w, task, TRUE, TRUE))

BigLateError(w) ==
    /\ Alive /\ wstate[w] = "zombie"
    /\ Commit(EmitError([St EXCEPT !.wstate[w] = "dead", !.h.lateErrors = @ + 1], w, TRUE))

NextBig ==
    \/ Submit
    \/ \E w \in WorkerIds : BigMessage(w)
    \/ \E w \in WorkerIds : BigTimeout(w)
    \/ \E w \in WorkerIds : BigLateError(w)

SpecBig == InitBig /\ [][NextBig]_vars

\* Another process rewrites the input of a job while a worker has the job:
\* the file gets a later modification time.
LaterMtime == 3

Touch(j) ==
    /\ pc = "running"
    /\ \E w \in WorkerIds : wstate[w] = "busy" /\ inFlightMeta[w] = j
    /\ fs[j] # NoSig /\ fs[j].mtime # LaterMtime
    /\ Commit([St EXCEPT !.fs[j] = Sig(@.size, LaterMtime)])

NextTouch ==
    \/ NextCore
    \/ \E j \in Jobs : Touch(j)

SpecTouch == Init /\ [][NextTouch]_vars

\* Time passes: Date.now() returns a later value.
Tick ==
    /\ Alive
    /\ now < MaxNow
    /\ Commit([St EXCEPT !.now = @ + 1])

NextClock ==
    \/ NextCore
    \/ Tick

SpecClock == Init /\ [][NextClock]_vars

NextTwo ==
    \/ NextCore
    \/ SubmitOther

SpecTwo == Init /\ [][NextTwo]_vars

TypeOK ==
    /\ nextW <= MaxW + 1
    /\ inFlightCount = Cardinality({w \in WorkerIds : inFlightMeta[w] # NoJob})
    /\ \A w \in WorkerIds : Len(msgL[w]) <= 1

\* ---------------------------------------------------------------- claims
\* C1: whenever finishCheck declares completion, done = total, pendingInputs
\* is empty, the queue is empty and no in-flight record remains.
C1_CompletionExact ==
    \A i \in 1..Len(h.declares) :
        /\ h.declares[i].done = total
        /\ h.declares[i].pendingInputs = {}
        /\ h.declares[i].queue = <<>>
        /\ h.declares[i].records = {}

\* C2: between any two handlers, the pool is partitioned: the idle list has no
\* duplicates and only pool members, a pool member is idle or the key of an
\* in-flight record and never both, every record's key is a pool member, and
\* the record counter counts the keys (no worker carries two records).
PoolSet == SeqToSet(PERSIST_WORKERS.workers)
IdleSet == SeqToSet(PERSIST_WORKERS.idle)
RecordKeys == {w \in WorkerIds : inFlightMeta[w] # NoJob}

UpToDateAtSubmit(j) ==
    /\ tasks[j]
    /\ fs[j] # NoSig
    /\ h.cacheAtSubmit[j] = fs[j]

C3_FilterExact ==
    pc # "start" =>
        /\ \A j \in 1..Len(tasks) :
               (j \in SeqToSet(h.admitted)) <=> ~UpToDateAtSubmit(j)
        /\ total = Cardinality(SeqToSet(h.admitted))
        /\ Len(h.admitted) = total
        /\ \A j \in 1..Len(tasks) :
               UpToDateAtSubmit(j) =>
                   /\ j \notin SeqToSet(h.dispatched)
                   /\ h.syncRuns[j] = 0
                   /\ h.outcomes[j] = 0
                   /\ j \notin pendingInputs

\* A finished run that skipped one task and ran another whose stored
\* signature differed from the input's in the size alone.
C3_Witness ==
    /\ pc = "complete"
    /\ \E j \in 1..Len(tasks) : UpToDateAtSubmit(j)
    /\ \E j \in 1..Len(tasks) :
           /\ tasks[j] /\ fs[j] # NoSig /\ h.cacheAtSubmit[j] # NoSig
           /\ h.cacheAtSubmit[j].mtime = fs[j].mtime
           /\ h.cacheAtSubmit[j].size # fs[j].size
           /\ j \in SeqToSet(h.dispatched)

\* C4: a job whose deadline timer fired was run synchronously exactly once,
\* has exactly one outcome counted in done, is not in the queue and was bound
\* to a worker exactly once.
Count(q, x) == Cardinality({i \in 1..Len(q) : q[i] = x})

C4_TimeoutOneOutcome ==
    \A j \in h.timedOut :
        /\ h.syncRuns[j] = 1
        /\ h.outcomes[j] = 1
        /\ Count(queue, j) = 0
        /\ Count(h.dispatched, j) = 1

\* C5: the step in which a busy worker emits 'error' counts exactly one
\* outcome, appends exactly the job bound to it to failed, retries nothing
\* synchronously, re-queues nothing, and (while the run goes on) leaves the
\* pool as large as it was, with the dead worker out of it.
ErrorStep(w) ==
    /\ wstate[w] = "busy"
    /\ inFlightMeta[w] \notin h.errored
    /\ inFlightMeta[w] \in h'.errored

C5_ErrorOneFailure ==
    [][\A w \in WorkerIds :
         ErrorStep(w) =>
             /\ done' = done + 1
             /\ failed' = Append(failed, inFlightMeta[w])
             /\ fallback' = fallback
             /\ h'.syncRuns = h.syncRuns
             /\ Count(queue', inFlightMeta[w]) = 0
             /\ pc' = "running" =>
                    /\ Len(PERSIST_WORKERS'.workers) = Len(PERSIST_WORKERS.workers)
                    /\ w \notin SeqToSet(PERSIST_WORKERS'.workers)]_vars

\* C6: without a cancellation signal, a run on the worker path ends with
\* completion declared, an outcome for every admitted job, an empty queue and
\* no in-flight record.  Stated on the runs' quiescent states: no deadline
\* timer is armed, so no job is bound to a live worker and no handler that
\* could bind one will run again.
AllResolved ==
    /\ h.declares # <<>>
    /\ \A j \in SeqToSet(h.admitted) : h.outcomes[j] >= 1
    /\ queue = <<>>
    /\ RecordKeys = {}

Quiescent ==
    /\ pc \in {"running", "complete"}
    /\ timers = {}

C6_QuiescentResolved == Quiescent => AllResolved

\* C7: a batch that has ended without a cancellation signal (completion was
\* declared, or the synchronous loop was left) and with no deadline timer
\* armed has an outcome for every admitted job and has flushed the store.
BatchEnded ==
    /\ pc \in {"returned", "complete", "threw"}
    /\ total > 0
    /\ timers = {}

C7_FaultsContained ==
    BatchEnded =>
        /\ \A j \in SeqToSet(h.admitted) : h.outcomes[j] >= 1
        /\ h.flushCalls >= 1

\* C8: fallback holds every job whose deadline timer fired exactly once and
\* no other job, whether its synchronous retry succeeded or failed.
C8_FallbackExact ==
    \A j \in Jobs : Count(fallback, j) = (IF j \in h.timedOut THEN 1 ELSE 0)

\* C9: within a run, a step changes the store entry of a job only when it
\* counts a success of that job (one outcome, nothing appended to failed for
\* it), the job declares an output and its input has a signature, and the new
\* entry is that signature; message failures, errors, failing retries,
\* watchdog ticks and cancellation change no entry.
StoreChanged(j) == BUILD_CACHE'[j] # BUILD_CACHE[j]

C9_StoreFrame ==
    [][h'.runNo = h.runNo =>
         \A j \in Jobs :
             StoreChanged(j) =>
                 /\ j <= Len(tasks) /\ tasks[j]
                 /\ fs[j] # NoSig
                 /\ BUILD_CACHE'[j] = fs[j]
                 /\ j \in h'.succeeded
                 /\ h'.outcomes[j] = h.outcomes[j] + 1
                 /\ Count(failed', j) = Count(failed, j)]_vars

\* A finished run in which a success gave one job a new entry and a failure
\* left the stale entry of another job, whose input has a signature, as it was.
C9_Witness ==
    /\ pc = "complete"
    /\ \E j \in SeqToSet(h.admitted) :
           /\ j \in h.succeeded
           /\ h.cacheAtSubmit[j] # fs[j]
           /\ BUILD_CACHE[j] = fs[j]
    /\ \E k \in SeqToSet(h.admitted) :
           /\ Count(failed, k) >= 1
           /\ tasks[k] /\ fs[k] # NoSig
           /\ h.cacheAtSubmit[k] # NoSig
           /\ BUILD_CACHE[k] = h.cacheAtSubmit[k]

\* C10 (as stated): when the first run ended and left the store flushed, the
\* second run of the same batch admits no job.
SecondRun ==
    /\ h.runNo = 2
    /\ pc # "start"
    /\ ~h.prev.dirty

C10_SecondRunAdmitsNone == SecondRun => total = 0

\* C10 (amended): the second run admits no job that succeeded in the first
\* run, declares an output and has an input signature; the jobs it admits
\* failed in the first run, declare no output or have an unreadable input.
C10_SecondRunSkipsSucceeded ==
    SecondRun =>
        \A j \in SeqToSet(h.admitted) :
            \/ ~tasks[j]
            \/ fs[j] = NoSig
            \/ j \notin h.prev.succeeded

\* A second run that skipped a job the first run built and admitted another.
C10_Witness ==
    /\ SecondRun
    /\ total > 0
    /\ \E j \in h.prev.succeeded :
           /\ tasks[j] /\ fs[j] # NoSig
           /\ j \notin SeqToSet(h.admitted)

\* C11 (as stated): a first run of new jobs, each with an output and a
\* readable input, in which every job reported success and no fault occurred,
\* ends with one persisted entry per job, equal to the input's signature, no
\* other entry, and the dirty flag clear.
AllNewAllOk ==
    /\ h.runNo = 1
    /\ pc \in {"complete", "returned"}
    /\ total = Len(tasks)
    /\ \A j \in 1..Len(tasks) :
           tasks[j] /\ fs[j] # NoSig /\ h.cacheAtSubmit[j] = NoSig
    /\ \A k \in Jobs : k > Len(tasks) => h.cacheAtSubmit[k] = NoSig
    /\ h.succeeded = 1..Len(tasks)
    /\ failed = <<>> /\ h.timedOut = {} /\ h.errored = {} /\ h.lateErrors = 0

StoreGained ==
    /\ \A j \in 1..Len(tasks) : disk[j] = fs[j]
    /\ \A k \in Jobs : k > Len(tasks) => disk[k] = NoSig
    /\ ~BUILD_CACHE_DIRTY

Recorded(j) == j \in h.succeeded /\ tasks[j] /\ fs[j] # NoSig

C12_CancelFlushes ==
    [][/\ pc # "exited"
       /\ pc' = "exited" =>
              /\ exitCode' = 130
              /\ h'.flushFails = h.flushFails =>
                     \A j \in Jobs : Recorded(j)' => disk'[j] = fs[j]
              /\ Alive =>
                     /\ done' = done /\ queue' = queue
                     /\ failed' = failed /\ fallback' = fallback
                     /\ h'.dispatched = h.dispatched
                     /\ h'.syncRuns = h.syncRuns
                     /\ h'.outcomes = h.outcomes]_vars

\* C13: no step terminates a worker on which the second batch has a job in
\* flight or strands its queued jobs without a pool, and the second call's
\* ensureWorkers terminates no worker on which the first batch has a job in
\* flight.
C13_BatchesIndependent ==
    [][\A w \in WorkerIds :
         /\ wstate[w] = "busyOther" => wstate'[w] = "busyOther"
         /\ (~other.called /\ other'.called /\ wstate[w] = "busy")
                => wstate'[w] = "busy"]_vars

\* C14: while the run is going on, the pool holds exactly
\* min(maxWorkers, total) distinct workers, no more jobs than that are in
\* flight, and a call of ensureWorkers for that number would create and
\* terminate nothing (it leaves the whole state as it is).
PoolTarget == Min(MaxWorkersOf(jobsArg), total)

IsPrefix(p, q) ==
    /\ Len(p) <= Len(q)
    /\ \A i \in 1..Len(p) : p[i] = q[i]

C15_FifoBinding ==
    pc \in {"running", "complete"} =>
        /\ IsPrefix(h.dispatched, h.admitted)
        /\ queue = SubSeq(h.admitted, Len(h.dispatched) + 1, Len(h.admitted))

\* Three jobs bound on two workers, the third one in a later step than the
\* first two, after the second job's worker had answered first.
C15_Witness ==
    /\ pc = "running"
    /\ jobsArg = 2
    /\ h.dispatched = <<1, 2, 3>>
    /\ h.outcomes[2] = 1 /\ h.outcomes[1] = 0

\* C16: the step that handles {ok: false} from the worker of a job counts one
\* outcome, appends that job to failed, and creates no worker; while the run
\* goes on the pool is as it was, with that worker alive in it and either
\* idle or already bound to the job that was first in the queue; and the run
\* goes on whenever outcomes are still missing.
MsgFailStep(w) ==
    /\ wstate[w] = "busy"
    /\ inFlightMeta[w] # NoJob
    /\ inFlightMeta[w] \notin h.msgFailed
    /\ inFlightMeta[w] \in h'.msgFailed

C16_FailureKeepsWorker ==
    [][\A w \in WorkerIds :
         MsgFailStep(w) =>
             /\ done' = done + 1
             /\ failed' = Append(failed, inFlightMeta[w])
             /\ fallback' = fallback
             /\ nextW' = nextW
             /\ done + 1 < total => pc' = "running"
             /\ pc' = "running" =>
                    /\ PERSIST_WORKERS'.workers = PERSIST_WORKERS.workers
                    /\ w \in SeqToSet(PERSIST_WORKERS'.workers)
                    /\ wstate'[w] \in {"idle", "busy"}
                    /\ \/ w \in SeqToSet(PERSIST_WORKERS'.idle)
                       \/ queue # <<>> /\ inFlightMeta'[w] = Head(queue)]_vars

\* A worker that reported the failure of its first job and now has the next
\* job of the queue.
C16_Witness ==
    /\ pc = "running"
    /\ \E w \in WorkerIds :
           /\ Len(errL[w]) = 2
           /\ errL[w][1] \in h.msgFailed
           /\ inFlightMeta[w] = errL[w][2]
           /\ wstate[w] = "busy"

\* C17: the handler step that brings done from below total to total with no
\* record left declares completion: the watchdog is stopped, the flush is
\* called, every worker of the pool is terminated and the pool and its idle
\* list are empty; and the watchdog stays stopped once completion is declared.
LastOutcomeStep ==
    /\ pc = "running"
    /\ done < total
    /\ done' = total
    /\ inFlightCount' = 0

C17_CompletionActions ==
    [][/\ LastOutcomeStep =>
              /\ pc' = "complete"
              /\ ~stallTimerOn'
              /\ h'.flushCalls > h.flushCalls
              /\ Len(h'.declares) = Len(h.declares) + 1
              /\ PERSIST_WORKERS'.workers = <<>>
              /\ PERSIST_WORKERS'.idle = <<>>
              /\ \A w \in PoolSet : wstate'[w] \in {"zombie", "dead"}
       /\ pc' = "complete" => ~stallTimerOn'
       /\ (pc = "complete" /\ pc' = "complete") =>
              h'.stallReports = h.stallReports]_vars

\* A completed run of three jobs on two workers, declared once.
C17_Witness ==
    /\ pc = "complete"
    /\ total = 3 /\ done = 3 /\ jobsArg = 2
    /\ Len(h.declares) = 1
    /\ h.flushCalls = 1
    /\ \A w \in WorkerIds : wstate[w] \in {"none", "dead", "zombie"}

\* C18: a watchdog tick changes nothing of the run: a step that logs a stall
\* report leaves every variable of the environment, the module and the run
\* (lastProgress among them) as it was.  (A tick that logs nothing changes
\* nothing at all.)
C18_TickChangesNothing ==
    [][h'.stallReports > h.stallReports =>
           UNCHANGED <<envVars, modVars, runVars, other>>]_vars

\* C19: a tick logs a stall report exactly when the run is not complete and
\* the time since the last progress event (the last outcome handled, or the
\* start of the run) has reached the threshold.
TickLogs == onStallTick(St).h.stallReports > h.stallReports

C19_StallReportIff ==
    (Alive /\ stallTimerOn) =>
        (TickLogs <=> (pc = "running" /\ now - h.lastEvent >= STALL_MS))

\* C20: when worker.js does not exist and no interrupt ends the process, the
\* call has run every admitted job synchronously, once each and in submission
\* order, has created no worker, has recorded the signature of every job with
\* an output and a readable input that succeeded, and has called the flush
\* exactly once, after the last job.
C20_DegeneratePath ==
    (~workerScript /\ pc \in {"returned", "threw"} /\ total > 0) =>
        /\ h.syncOrder = h.admitted
        /\ \A j \in SeqToSet(h.admitted) : h.syncRuns[j] = 1
        /\ nextW = 1 /\ PERSIST_WORKERS.workers = <<>>
        /\ h.dispatched = <<>>
        /\ \A j \in h.succeeded :
               (tasks[j] /\ fs[j] # NoSig) => BUILD_CACHE[j] = fs[j]
        /\ h.flushCalls = 1

\* C21: the flush, called in any reachable state, writes only when the dirty
\* flag is set; a write that succeeds makes the file equal to the store and
\* clears the flag; a write that fails changes neither file, store nor flag
\* and does not end the caller, and the next flush writes; recording a
\* signature sets the flag and leaves the file alone.  In the steps of the
\* run: the file changes only by a write, a failed write leaves the flag set,
\* and a step that changes the store without flushing leaves the file alone
\* and the flag set.
SameButHistory(s, u) == [s EXCEPT !.h = u.h] = u

FlushContract ==
    /\ ~BUILD_CACHE_DIRTY =>
           \A wok \in BOOLEAN : SameButHistory(persistBuildCache(St, wok), St)
    /\ BUILD_CACHE_DIRTY =>
           /\ LET s == persistBuildCache(St, TRUE) IN
                  /\ s.disk = BUILD_CACHE
                  /\ ~s.BUILD_CACHE_DIRTY
                  /\ SameButHistory([s EXCEPT !.disk = disk,
                                              !.BUILD_CACHE_DIRTY = TRUE], St)
           /\ LET s == persistBuildCache(St, FALSE) IN
                  /\ SameButHistory(s, St)
                  /\ persistBuildCache(s, TRUE).disk = BUILD_CACHE

RecordContract ==
    \A j \in 1..Len(tasks) :
        LET s == RecordSig(St, j) IN
        /\ s.disk = disk
        /\ s.BUILD_CACHE # BUILD_CACHE => s.BUILD_CACHE_DIRTY
        /\ (tasks[j] /\ fs[j] # NoSig) =>
               s.BUILD_CACHE[j] = fs[j] /\ s.BUILD_CACHE_DIRTY

C21_FlushAndRecord ==
    [][/\ FlushContract
       /\ RecordContract
       /\ disk' # disk =>
              /\ h'.flushWrites > h.flushWrites
              /\ disk' = BUILD_CACHE'
              /\ ~BUILD_CACHE_DIRTY'
       /\ h'.flushFails > h.flushFails =>
              /\ BUILD_CACHE_DIRTY'
              /\ pc' \in {"complete", "returned", "exited"}
       /\ (h'.runNo = h.runNo /\ BUILD_CACHE' # BUILD_CACHE
              /\ h'.flushCalls = h.flushCalls) =>
              /\ BUILD_CACHE_DIRTY'
              /\ disk' = disk]_vars

\* A write that failed at completion and succeeded at a later flush.
C21_Witness ==
    /\ h.flushFails >= 1
    /\ h.flushWrites >= 1
    /\ ~BUILD_CACHE_DIRTY
    /\ disk = BUILD_CACHE
    /\ \E j \in Jobs : disk[j] # h.cacheAtSubmit[j]

\* C22: the first interrupt of a run sets aborted, stops the watchdog, calls
\* the flush once and ends the process; the handler called again after it
\* changes nothing at all, and no step follows an aborted state.
C22_CancelOnce ==
    [][/\ ~aborted
       /\ (Alive /\ sigintL) =>
              \A wok \in BOOLEAN, wok2 \in BOOLEAN :
                  LET s1 == onSigInt([St EXCEPT !.sigintL = FALSE], wok) IN
                  /\ s1.aborted /\ ~s1.stallTimerOn
                  /\ s1.h.flushCalls = h.flushCalls + 1
                  /\ onSigInt(s1, wok2) = s1
       /\ aborted' =>
              /\ pc' = "exited" /\ exitCode' = 130
              /\ ~stallTimerOn' /\ ~sigintL'
              /\ h'.flushCalls = h.flushCalls + 1]_vars

\* A run cancelled after some but not all outcomes, with the store written.
C22_Witness ==
    /\ aborted /\ pc = "exited"
    /\ done > 0 /\ done < total
    /\ h.flushWrites = 1
    /\ queue # <<>>

\* C23: the level parseJobs returns is at least 1; without a positive -j
\* value and without TSRSC_JOBS it is half the cpu count, rounded down, at
\* least 1; with TSRSC_JOBS = N > 0 and no -j flag it is N.
C23_ParallelismLevel ==
    pc = "parsed" =>
        /\ jobsArg >= 1
        /\ ((argv.kind # "int" \/ argv.n <= 0) /\ argv.env = 0) =>
               jobsArg = HalfCpus(argv)
        /\ (argv.kind = "none" /\ argv.env > 0) => jobsArg = argv.env

\* C24: no job ever has more than one outcome counted (of its message, its
\* error and its timeout only the first takes effect), and the delivery of an
\* event of a worker that was terminated while busy changes neither done,
\* failed, pendingInputs nor the pool and its idle list.
LateEvent(w) == wstate[w] = "zombie" /\ wstate'[w] = "dead"

C24_OneEventPerJob ==
    [][/\ \A j \in Jobs : h'.outcomes[j] <= 1
       /\ \A w \in WorkerIds :
              LateEvent(w) =>
                  /\ done' = done
                  /\ failed' = failed
                  /\ pendingInputs' = pendingInputs
                  /\ PERSIST_WORKERS' = PERSIST_WORKERS]_vars

\* C25: while the run is going on (completion not declared, no interrupt),
\* between handlers the queue is empty or no pool worker is idle.
C25_WorkConserving ==
    pc = "running" => (queue = <<>> \/ PERSIST_WORKERS.idle = <<>>)

\* C26: after every handler of a run on the worker path, done plus the
\* length of the queue plus the number of in-flight records is total, done is
\* at most total, inFlightCount is the number of records, and within a run
\* done never decreases.
C26_Accounting ==
    [][/\ pc' \in {"running", "complete"} =>
              /\ done' + Len(queue') + Cardinality(RecordKeys') = total'
              /\ done' <= total'
              /\ inFlightCount' = Cardinality(RecordKeys')
       /\ h'.runNo = h.runNo => done' >= done]_vars

\* C27: failed holds no job twice, and only admitted jobs whose worker
\* answered {ok: false}, whose worker emitted 'error' while the job was bound,
\* or whose timer fired (failing retry); a job whose {ok: true} message was
\* handled is not in it; and it is never longer than done.
C27_FailedAccurate ==
    /\ \A j \in Jobs : Count(failed, j) <= 1
    /\ \A j \in SeqToSet(failed) :
           /\ j \in SeqToSet(h.admitted)
           /\ j \in h.msgFailed \cup h.errored \cup h.timedOut
           /\ ~(j \in h.succeeded /\ j \notin h.timedOut)
    /\ Len(failed) <= done

\* C28: an entry stored by a success of this run is the signature the input
\* had when the execution that succeeded read it (h.consumed: at the binding
\* for a worker, at the call for a synchronous execution).
C28_StoredIsConsumed ==
    \A j \in 1..Len(tasks) :
        (j \in h.succeeded /\ tasks[j] /\ BUILD_CACHE[j] # h.cacheAtSubmit[j])
            => BUILD_CACHE[j] = h.consumed[j]

\* C29: every job that was in failed when the first run ended is admitted by
\* the second run of the same batch.
C29_FailedRunAgain ==
    (h.runNo = 2 /\ pc # "start") =>
        h.prev.failed \subseteq SeqToSet(h.admitted)

\* C30: completion is declared at most once per run, and once it has been
\* declared no step of that run changes done, failed, fallback or the store
\* (in memory or on disk), creates a worker, or declares completion again.
C30_TerminalIsFinal ==
    [][/\ Len(h'.declares) <= 1
       /\ (pc = "complete" /\ pc' = "complete") =>
              /\ done' = done
              /\ failed' = failed
              /\ fallback' = fallback
              /\ BUILD_CACHE' = BUILD_CACHE
              /\ disk' = disk
              /\ nextW' = nextW
              /\ h'.declares = h.declares]_vars

====
